---- MODULE Spec2Model ----
(***************************************************************************)
(* Booking/slot consistency engine of the University Appointment           *)
(* Scheduler: the mock API of src/src/lib/mockApi.ts over the three        *)
(* localStorage collections (users, slots, appointments), with the time    *)
(* helpers of src/src/utils/helpers.ts.                                    *)
(*                                                                         *)
(* Time is counted in minutes since an arbitrary epoch; the helpers work   *)
(* in milliseconds, and every instant of the model is a whole minute.      *)
(* uid() is modelled by counters: slot ids are 1, 2, ... in order of       *)
(* creation and are never reused, appointment ids are the positions in     *)
(* the appointments list (appointments are only ever pushed).              *)
(* A slot's location and an appointment's notes are free text that no      *)
(* decision reads; they are not part of the state.                         *)
(***************************************************************************)
EXTENDS Integers, Sequences, FiniteSets, Bags, TLC

VARIABLES
    users,         \* uas_users: set of [id, role]
    slots,         \* uas_slots: sequence of slot records
    appointments,  \* uas_appointments: sequence of appointment records
    slotUids,      \* number of slot ids handed out by uid() so far
    now,           \* the wall clock (new Date()), in minutes
    pending,       \* bag of the calls waiting out simulateNetworkDelay()
    last,          \* the call that completed last, and how it ended
    authUsers,     \* firebase_auth_users: set of [uid, email, role]
    authSession,   \* firebase_current_user: the account of the session
    currentUser,   \* App's currentUser state: [id, email, role]
    clockReads     \* the two new Date() readings of the last timed call

vars == <<users, slots, appointments, slotUids, now, pending, last,
          authUsers, authSession, currentUser, clockReads>>

auth == <<authUsers, authSession, currentUser>>

store == <<users, slots, appointments, slotUids>>

-----------------------------------------------------------------------------
(* Bounds of the model *)

MaxSlots == 1        \* slot ids ever created
MaxAppts == 2        \* appointments ever created
SeatCap == 2         \* availableSeats is not driven above this
MaxInFlight == 2     \* calls waiting at the same time
MaxScheduleSlots == 2   \* slot ids ever created in SpecSchedule
MaxScheduleAppts == 1   \* appointments ever created in SpecSchedule
MaxSignUps == 2         \* accounts ever created by sign-up

(* Program constants *)

MS_PER_MINUTE == 60000
MS_PER_HOUR == 3600000
BOOKING_HOURS == 1
CANCEL_HOURS == 24

(* Instants the model draws from: slot boundaries and clock readings.      *)
(* 1500 - 60 is exactly 24 h, 1500 - 1440 is exactly 60 min.               *)
NowTimes == {0, 1440}

Students == {"student1", "student2"}
Teachers == {"teacher1", "teacher2"}
UserIds == Students \cup Teachers

SeedEmails ==
    [u \in UserIds |->
        CASE u = "student1" -> "alice.johnson@university.edu"
          [] u = "student2" -> "bob.martinez@university.edu"
          [] u = "teacher1" -> "robert.smith@university.edu"
          [] u = "teacher2" -> "emily.chen@university.edu"]

SeedUsers ==
    {[id |-> u, role |-> "STUDENT", email |-> SeedEmails[u]] : u \in Students}
        \cup {[id |-> u, role |-> "TEACHER", email |-> SeedEmails[u]] :
                 u \in Teachers}

\* the accounts of seedDemoAccounts; their uids are "firebase_" + uid()
DemoAccounts ==
    {[uid |-> "firebase_1", email |-> "student@demo.com", role |-> "STUDENT"],
     [uid |-> "firebase_2", email |-> "teacher@demo.com", role |-> "TEACHER"]}

\* no session stored, nobody signed in
NoSession == [uid |-> "", email |-> "", role |-> ""]
NoUser == [id |-> "", email |-> "", role |-> ""]

-----------------------------------------------------------------------------
(* helpers.ts *)

\* The empty string, the one ISO string that is falsy: new Date("") is an
\* Invalid Date, its getTime() is NaN and every comparison with it is false.
EmptyISO == -1

\* hoursUntilSlot > h, with both sides scaled by the milliseconds of an hour
HoursUntilExceeds(slotStartISO, h) ==
    /\ slotStartISO # EmptyISO
    /\ (slotStartISO - now) * MS_PER_MINUTE > h * MS_PER_HOUR

isWithinCancellationWindow(slotStartISO) ==
    HoursUntilExceeds(slotStartISO, CANCEL_HOURS)

\* isBookingAllowed with >= in place of >
isBookingAllowedInclusive(slotStartISO) ==
    /\ slotStartISO # EmptyISO
    /\ (slotStartISO - now) * MS_PER_MINUTE >= BOOKING_HOURS * MS_PER_HOUR

isBookingAllowed(slotStartISO) ==
    HoursUntilExceeds(slotStartISO, BOOKING_HOURS)

\* slotsOverlap on closed ranges: touching ranges overlap
slotsOverlapClosed(start1, end1, start2, end2) ==
    /\ EmptyISO \notin {start1, end1, start2, end2}
    /\ start1 <= end2
    /\ start2 <= end1

slotsOverlap(start1, end1, start2, end2) ==
    /\ EmptyISO \notin {start1, end1, start2, end2}
    /\ start1 < end2
    /\ start2 < end1

-----------------------------------------------------------------------------
(* Array helpers *)

\* Array.prototype.findIndex on the id field; 0 stands for -1 (not found)
FindIndex(list, id) ==
    IF \E i \in 1..Len(list) : list[i].id = id
    THEN CHOOSE i \in 1..Len(list) :
            list[i].id = id /\ \A j \in 1..(i - 1) : list[j].id # id
    ELSE 0

\* Array.prototype.splice(index, 1)
Splice(list, index) ==
    [i \in 1..(Len(list) - 1) |-> IF i < index THEN list[i] ELSE list[i + 1]]

\* {...slot, ...updates}: the fields of updates override those of slot
Spread(slot, updates) ==
    [f \in DOMAIN slot |-> IF f \in DOMAIN updates THEN updates[f] ELSE slot[f]]

hasBookings(slotId) ==
    \E i \in 1..Len(appointments) :
        appointments[i].slotId = slotId /\ appointments[i].status = "BOOKED"

-----------------------------------------------------------------------------
(* createSlot *)

createSlotError(teacherId, startISO, endISO) ==
    IF ~ \E u \in users : u.id = teacherId /\ u.role = "TEACHER"
    THEN "InvalidTeacher"
    ELSE IF startISO >= endISO
    THEN "InvalidTimeRange"
    ELSE IF \E i \in 1..Len(slots) :
                /\ slots[i].teacherId = teacherId
                /\ slotsOverlap(slots[i].startISO, slots[i].endISO,
                                startISO, endISO)
    THEN "OverlappingSlot"
    ELSE "ok"

\* newSlot keeping the availableSeats of slotData
newSlotAsSupplied(teacherId, startISO, endISO, maxSeats, availableSeats) ==
    [id |-> slotUids + 1, teacherId |-> teacherId,
     startISO |-> startISO, endISO |-> endISO,
     maxSeats |-> maxSeats, availableSeats |-> availableSeats]

\* {id: uid(), ...slotData, availableSeats: slotData.maxSeats}
newSlot(teacherId, startISO, endISO, maxSeats, availableSeats) ==
    [id |-> slotUids + 1, teacherId |-> teacherId,
     startISO |-> startISO, endISO |-> endISO,
     maxSeats |-> maxSeats, availableSeats |-> maxSeats]

createSlot(teacherId, startISO, endISO, maxSeats, availableSeats) ==
    LET err == createSlotError(teacherId, startISO, endISO) IN
    /\ IF err = "ok"
       THEN /\ slots' = Append(slots,
                            newSlot(teacherId, startISO, endISO, maxSeats,
                                    availableSeats))
            /\ slotUids' = slotUids + 1
       ELSE UNCHANGED <<slots, slotUids>>
    /\ UNCHANGED <<users, appointments>>

-----------------------------------------------------------------------------
(* updateSlot *)

\* updateSlotError without the check for BOOKED appointments
updateSlotErrorNoBookingCheck(slotId, updates) ==
    IF FindIndex(slots, slotId) = 0
    THEN "SlotNotFound"
    ELSE "ok"

\* updates[field] is truthy: present and not the empty string
Truthy(updates, field) ==
    field \in DOMAIN updates /\ updates[field] # EmptyISO

\* updateSlotError that re-runs the overlap check of createSlot on the
\* range the slot would get
updateSlotErrorWithOverlapCheck(slotId, updates) ==
    LET k == FindIndex(slots, slotId) IN
    IF k = 0
    THEN "SlotNotFound"
    ELSE IF /\ hasBookings(slotId)
            /\ (Truthy(updates, "startISO") \/ Truthy(updates, "endISO"))
    THEN "SlotHasBookings"
    ELSE IF \E i \in 1..Len(slots) :
                /\ i # k
                /\ slots[i].teacherId = slots[k].teacherId
                /\ slotsOverlap(slots[i].startISO, slots[i].endISO,
                                Spread(slots[k], updates).startISO,
                                Spread(slots[k], updates).endISO)
    THEN "OverlappingSlot"
    ELSE "ok"

updateSlotError(slotId, updates) ==
    IF FindIndex(slots, slotId) = 0
    THEN "SlotNotFound"
    ELSE IF /\ hasBookings(slotId)
            /\ (Truthy(updates, "startISO") \/ Truthy(updates, "endISO"))
    THEN "SlotHasBookings"
    ELSE "ok"

updateSlotWrite(slotId, updates) ==
    LET slotIndex == FindIndex(slots, slotId) IN
    [slots EXCEPT ![slotIndex] = Spread(slots[slotIndex], updates)]

updateSlot(slotId, updates) ==
    LET err == updateSlotError(slotId, updates) IN
    /\ IF err = "ok"
       THEN slots' = updateSlotWrite(slotId, updates)
       ELSE UNCHANGED slots
    /\ UNCHANGED <<users, appointments, slotUids>>

-----------------------------------------------------------------------------
(* deleteSlot *)

\* deleteSlotError without the check for BOOKED appointments
deleteSlotErrorNoBookingCheck(slotId) ==
    IF FindIndex(slots, slotId) = 0
    THEN "SlotNotFound"
    ELSE "ok"

deleteSlotError(slotId) ==
    IF FindIndex(slots, slotId) = 0
    THEN "SlotNotFound"
    ELSE IF hasBookings(slotId)
    THEN "SlotHasBookings"
    ELSE "ok"

deleteSlot(slotId) ==
    LET err == deleteSlotError(slotId) IN
    /\ IF err = "ok"
       THEN slots' = Splice(slots, FindIndex(slots, slotId))
       ELSE UNCHANGED slots
    /\ UNCHANGED <<users, appointments, slotUids>>

-----------------------------------------------------------------------------
(* bookAppointment *)

\* the student's BOOKED appointments whose slot is stored and overlaps slot
hasConflict(slot, studentId) ==
    \E i \in 1..Len(appointments) :
        /\ appointments[i].studentId = studentId
        /\ appointments[i].status = "BOOKED"
        /\ LET k == FindIndex(slots, appointments[i].slotId) IN
           /\ k # 0
           /\ slotsOverlap(slot.startISO, slot.endISO,
                           slots[k].startISO, slots[k].endISO)

\* bookAppointmentError with the timing check moved before the seat check
bookAppointmentErrorReordered(slotId, studentId) ==
    IF ~ \E u \in users : u.id = studentId /\ u.role = "STUDENT"
    THEN "InvalidStudent"
    ELSE IF FindIndex(slots, slotId) = 0
    THEN "SlotNotFound"
    ELSE IF ~ isBookingAllowed(slots[FindIndex(slots, slotId)].startISO)
    THEN "TooLateToBook"
    ELSE IF slots[FindIndex(slots, slotId)].availableSeats <= 0
    THEN "SlotFull"
    ELSE IF hasConflict(slots[FindIndex(slots, slotId)], studentId)
    THEN "ConflictingAppointment"
    ELSE "ok"

\* bookAppointmentError without the seat check
bookAppointmentErrorNoSeatCheck(slotId, studentId) ==
    IF ~ \E u \in users : u.id = studentId /\ u.role = "STUDENT"
    THEN "InvalidStudent"
    ELSE IF FindIndex(slots, slotId) = 0
    THEN "SlotNotFound"
    ELSE IF ~ isBookingAllowed(slots[FindIndex(slots, slotId)].startISO)
    THEN "TooLateToBook"
    ELSE IF hasConflict(slots[FindIndex(slots, slotId)], studentId)
    THEN "ConflictingAppointment"
    ELSE "ok"

bookAppointmentError(slotId, studentId) ==
    IF ~ \E u \in users : u.id = studentId /\ u.role = "STUDENT"
    THEN "InvalidStudent"
    ELSE IF FindIndex(slots, slotId) = 0
    THEN "SlotNotFound"
    ELSE IF slots[FindIndex(slots, slotId)].availableSeats <= 0
    THEN "SlotFull"
    ELSE IF ~ isBookingAllowed(slots[FindIndex(slots, slotId)].startISO)
    THEN "TooLateToBook"
    ELSE IF hasConflict(slots[FindIndex(slots, slotId)], studentId)
    THEN "ConflictingAppointment"
    ELSE "ok"

newAppointment(slotId, studentId) ==
    [id |-> Len(appointments) + 1, slotId |-> slotId,
     studentId |-> studentId, status |-> "BOOKED"]

\* bookSlotsWrite without the decrement
bookSlotsWriteNone(slotId) == slots

\* slot.availableSeats -= 1; slots[slotIndex] = slot
bookSlotsWrite(slotId) ==
    LET slotIndex == FindIndex(slots, slotId) IN
    [slots EXCEPT ![slotIndex].availableSeats = @ - 1]

\* bookAppointment with its writes moved before the conflict check
bookAppointmentWriteFirst(slotId, studentId) ==
    LET err == bookAppointmentError(slotId, studentId) IN
    /\ IF err \in {"ok", "ConflictingAppointment"}
       THEN /\ appointments' =
                   Append(appointments, newAppointment(slotId, studentId))
            /\ slots' = bookSlotsWrite(slotId)
       ELSE UNCHANGED <<appointments, slots>>
    /\ UNCHANGED <<users, slotUids>>

bookAppointment(slotId, studentId) ==
    LET err == bookAppointmentError(slotId, studentId) IN
    /\ IF err = "ok"
       THEN /\ appointments' =
                   Append(appointments, newAppointment(slotId, studentId))
            /\ slots' = bookSlotsWrite(slotId)
       ELSE UNCHANGED <<appointments, slots>>
    /\ UNCHANGED <<users, slotUids>>

-----------------------------------------------------------------------------
(* cancelAppointment *)

\* cancelAppointmentError with the 24-hour window applied to every caller
cancelAppointmentErrorWindowForAll(appointmentId, userId) ==
    LET appointmentIndex == FindIndex(appointments, appointmentId) IN
    IF appointmentIndex = 0
    THEN "AppointmentNotFound"
    ELSE LET appointment == appointments[appointmentIndex]
             k == FindIndex(slots, appointment.slotId)
         IN  IF k = 0
             THEN "AssociatedSlotNotFound"
             ELSE IF appointment.studentId # userId
                     /\ slots[k].teacherId # userId
             THEN "NotAuthorized"
             ELSE IF ~ isWithinCancellationWindow(slots[k].startISO)
             THEN "TooLateToCancel"
             ELSE "ok"

\* cancelAppointmentError without the authorization check
cancelAppointmentErrorNoAuth(appointmentId, userId) ==
    LET appointmentIndex == FindIndex(appointments, appointmentId) IN
    IF appointmentIndex = 0
    THEN "AppointmentNotFound"
    ELSE LET appointment == appointments[appointmentIndex]
             k == FindIndex(slots, appointment.slotId)
         IN  IF k = 0
             THEN "AssociatedSlotNotFound"
             ELSE IF appointment.studentId = userId
                     /\ ~ isWithinCancellationWindow(slots[k].startISO)
             THEN "TooLateToCancel"
             ELSE "ok"

cancelAppointmentError(appointmentId, userId) ==
    LET appointmentIndex == FindIndex(appointments, appointmentId) IN
    IF appointmentIndex = 0
    THEN "AppointmentNotFound"
    ELSE LET appointment == appointments[appointmentIndex]
             k == FindIndex(slots, appointment.slotId)
         IN  IF k = 0
             THEN "AssociatedSlotNotFound"
             ELSE IF appointment.studentId # userId
                     /\ slots[k].teacherId # userId
             THEN "NotAuthorized"
             ELSE IF appointment.studentId = userId
                     /\ ~ isWithinCancellationWindow(slots[k].startISO)
             THEN "TooLateToCancel"
             ELSE "ok"

\* cancelAppointmentsWrite that removes the appointment from the list
cancelAppointmentsWriteRemove(appointmentId) ==
    Splice(appointments, FindIndex(appointments, appointmentId))

\* appointments[appointmentIndex].status = "CANCELLED"
cancelAppointmentsWrite(appointmentId) ==
    [appointments EXCEPT
        ![FindIndex(appointments, appointmentId)].status = "CANCELLED"]

\* cancelSlotsWrite without the increment
cancelSlotsWriteNone(slotId) == slots

\* slot.availableSeats += 1; slots[slotIndex] = slot
cancelSlotsWrite(slotId) ==
    LET slotIndex == FindIndex(slots, slotId) IN
    [slots EXCEPT ![slotIndex].availableSeats = @ + 1]

cancelAppointment(appointmentId, userId) ==
    LET err == cancelAppointmentError(appointmentId, userId)
        appointmentIndex == FindIndex(appointments, appointmentId)
    IN
    /\ IF err = "ok"
       THEN /\ appointments' = cancelAppointmentsWrite(appointmentId)
            /\ slots' = cancelSlotsWrite(appointments[appointmentIndex].slotId)
       ELSE UNCHANGED <<appointments, slots>>
    /\ UNCHANGED <<users, slotUids>>

-----------------------------------------------------------------------------
(* markAttended *)

markAttendedError(appointmentId) ==
    IF FindIndex(appointments, appointmentId) = 0
    THEN "AppointmentNotFound"
    ELSE "ok"

\* markAttendedWrite that marks every appointment
markAttendedWriteAll(appointmentId) ==
    [i \in 1..Len(appointments) |->
        [appointments[i] EXCEPT !.status = "ATTENDED"]]

markAttendedWrite(appointmentId) ==
    [appointments EXCEPT
        ![FindIndex(appointments, appointmentId)].status = "ATTENDED"]

markAttended(appointmentId) ==
    LET err == markAttendedError(appointmentId) IN
    /\ IF err = "ok"
       THEN appointments' = markAttendedWrite(appointmentId)
       ELSE UNCHANGED appointments
    /\ UNCHANGED <<users, slots, slotUids>>

-----------------------------------------------------------------------------
(* Queries: they read the collections and write nothing *)

\* a slot passes the filters that are set (a filter that is absent or falsy
\* does not filter)
SlotPassesFilters(s, filters) ==
    /\ ("teacherId" \in DOMAIN filters /\ filters.teacherId # "")
            => s.teacherId = filters.teacherId
    /\ ("startDate" \in DOMAIN filters /\ filters.startDate # EmptyISO)
            => s.startISO >= filters.startDate
    /\ ("endDate" \in DOMAIN filters /\ filters.endDate # EmptyISO)
            => s.startISO <= filters.endDate
    /\ ("available" \in DOMAIN filters /\ filters.available)
            => s.availableSeats > 0

getSlots(filters) ==
    SelectSeq(slots, LAMBDA s : SlotPassesFilters(s, filters))

\* the filter the student dashboard starts with
DashboardFilters == [available |-> TRUE]

\* getUserAppointments that leaves out what is not BOOKED
getUserAppointmentsBookedOnly(userId, role) ==
    IF role = "STUDENT"
    THEN SelectSeq(appointments,
                   LAMBDA a : a.studentId = userId /\ a.status = "BOOKED")
    ELSE SelectSeq(appointments,
                   LAMBDA a : /\ a.status = "BOOKED"
                              /\ \E i \in 1..Len(slots) :
                                    /\ slots[i].teacherId = userId
                                    /\ slots[i].id = a.slotId)

getUserAppointments(userId, role) ==
    IF role = "STUDENT"
    THEN SelectSeq(appointments, LAMBDA a : a.studentId = userId)
    ELSE SelectSeq(appointments,
                   LAMBDA a : \E i \in 1..Len(slots) :
                                /\ slots[i].teacherId = userId
                                /\ slots[i].id = a.slotId)

-----------------------------------------------------------------------------
(* The calls a client can make.  Ids range over every id the model can     *)
(* hand out, stored or not; a user id is any seeded user, so a teacher id  *)
(* can be passed where a student id is expected and the reverse.           *)

SlotIdArgs == 1..(MaxSlots + 1)
ApptIdArgs == 1..MaxAppts

\* the time ranges a caller asks for: two that overlap, one that ends
\* before it starts
SlotRanges == {<<1500, 1560>>, <<1530, 1590>>, <<1560, 1500>>}
SeatInputs == {1, 2}

\* updates of updateSlot, restricted to the fields the model tracks: an
\* update of the location alone is the empty update
LocationOnly == [f \in {} |-> 0]

Updates ==
    {LocationOnly}
        \cup {[maxSeats |-> m] : m \in SeatInputs}
        \cup {[availableSeats |-> v] : v \in SeatInputs}
        \cup {[startISO |-> r[1], endISO |-> r[2]] : r \in SlotRanges}

Calls ==
    {[op |-> "createSlot", uid |-> t, startISO |-> r[1], endISO |-> r[2],
      maxSeats |-> m, availableSeats |-> m] :
        t \in {"teacher1", "teacher2", "student1"},
        r \in SlotRanges, m \in SeatInputs}
    \cup {[op |-> "updateSlot", id |-> s, updates |-> u] :
            s \in SlotIdArgs, u \in Updates}
    \cup {[op |-> "deleteSlot", id |-> s] : s \in SlotIdArgs}
    \cup {[op |-> "bookAppointment", id |-> s, uid |-> u] :
            s \in SlotIdArgs, u \in {"student1", "student2", "teacher1"}}
    \cup {[op |-> "cancelAppointment", id |-> a, uid |-> u] :
            a \in ApptIdArgs, u \in UserIds}
    \cup {[op |-> "markAttended", id |-> a] : a \in ApptIdArgs}

\* the body of a call, run to completion once its delay is over
Exec(c) ==
    \/ c.op = "createSlot"
         /\ createSlot(c.uid, c.startISO, c.endISO, c.maxSeats,
                       c.availableSeats)
    \/ c.op = "updateSlot" /\ updateSlot(c.id, c.updates)
    \/ c.op = "deleteSlot" /\ deleteSlot(c.id)
    \/ c.op = "bookAppointment" /\ bookAppointment(c.id, c.uid)
    \/ c.op = "cancelAppointment" /\ cancelAppointment(c.id, c.uid)
    \/ c.op = "markAttended" /\ markAttended(c.id)

\* the error a call ends with, "ok" when it returns
ErrorOf(c) ==
    CASE c.op = "createSlot" -> createSlotError(c.uid, c.startISO, c.endISO)
      [] c.op = "updateSlot" -> updateSlotError(c.id, c.updates)
      [] c.op = "deleteSlot" -> deleteSlotError(c.id)
      [] c.op = "bookAppointment" -> bookAppointmentError(c.id, c.uid)
      [] c.op = "cancelAppointment" -> cancelAppointmentError(c.id, c.uid)
      [] c.op = "markAttended" -> markAttendedError(c.id)

(* How a completed call is recorded: the operation, its target id (slot or *)
(* appointment, 0 for createSlot), the user id it was given ("" when it    *)
(* takes none), the error it threw ("ok" when it returned), the id it      *)
(* created (0 when none), for a bookAppointment that returned the          *)
(* availableSeats it found (0 otherwise), and the number of other calls    *)
(* that were waiting out their delay when its body ran.                    *)
Outcome(c) ==
    [op |-> c.op,
     id |-> IF c.op = "createSlot" THEN 0 ELSE c.id,
     uid |-> IF c.op \in {"createSlot", "bookAppointment", "cancelAppointment"}
             THEN c.uid ELSE "",
     err |-> ErrorOf(c),
     made |-> IF ErrorOf(c) # "ok" THEN 0
              ELSE IF c.op = "createSlot" THEN slotUids + 1
              ELSE IF c.op = "bookAppointment" THEN Len(appointments) + 1
              ELSE 0,
     seats |-> IF c.op = "bookAppointment" /\ ErrorOf(c) = "ok"
               THEN slots[FindIndex(slots, c.id)].availableSeats
               ELSE 0,
     inflight |-> BagCardinality(pending (-) SetToBag({c}))]

NoCall == [op |-> "none", id |-> 0, uid |-> "", err |-> "ok", made |-> 0,
           seats |-> 0, inflight |-> 0]

\* no timed call has stored a timestamp yet
NoReads == [op |-> "none", checked |-> 0, stored |-> 0]

\* the clock moves forward
Tick ==
    /\ \E t \in NowTimes : t > now /\ now' = t
    /\ UNCHANGED <<store, pending, last, auth, clockReads>>

Init ==
    /\ users = SeedUsers
    /\ slots = <<>>
    /\ appointments = <<>>
    /\ slotUids = 0
    /\ now = 0
    /\ pending = EmptyBag
    /\ last = NoCall
    /\ authUsers = DemoAccounts
    /\ authSession = NoSession
    /\ currentUser = NoUser
    /\ clockReads = NoReads

\* the model stops where a bound would be exceeded
WithinBounds ==
    /\ slotUids' <= MaxSlots
    /\ Len(appointments') <= MaxAppts
    /\ \A i \in 1..Len(slots') : slots'[i].availableSeats <= SeatCap

-----------------------------------------------------------------------------
(* Spec: one client, one call at a time.  Every call is an await of        *)
(* simulateNetworkDelay() followed by a body with no further await, so a   *)
(* call that runs alone is one step.                                       *)

Call ==
    \E c \in Calls :
        /\ pending = EmptyBag
        /\ Exec(c)
        /\ WithinBounds
        /\ last' = Outcome(c)
        /\ UNCHANGED <<now, pending, auth, clockReads>>

Next == Call \/ Tick

Spec == Init /\ [][Next]_vars

-----------------------------------------------------------------------------
(* SpecInFlight: bookAppointment and cancelAppointment calls wait out      *)
(* their delays at the same time (several clicks, several tabs on the same *)
(* localStorage) and their bodies run in any order, each to completion;    *)
(* slots are created by calls that run alone.                              *)

InFlightCalls ==
    {c \in Calls :
        \/ c.op = "bookAppointment" /\ c.uid \in Students /\ c.id <= MaxSlots
        \/ c.op = "cancelAppointment" /\ c.uid \in Students \cup {"teacher1"}}

Issue ==
    \E c \in InFlightCalls :
        /\ BagCardinality(pending) < MaxInFlight
        /\ pending' = pending (+) SetToBag({c})
        /\ UNCHANGED <<store, now, last, auth, clockReads>>

Complete ==
    \E c \in BagToSet(pending) :
        /\ Exec(c)
        /\ WithinBounds
        /\ last' = Outcome(c)
        /\ pending' = pending (-) SetToBag({c})
        /\ UNCHANGED <<now, auth, clockReads>>

Setup ==
    \E c \in Calls :
        /\ c.op = "createSlot"
        /\ Exec(c)
        /\ WithinBounds
        /\ last' = Outcome(c)
        /\ UNCHANGED <<now, pending, auth, clockReads>>

InFlightNext == Issue \/ Complete \/ Setup

SpecInFlight == Init /\ [][InFlightNext]_vars

-----------------------------------------------------------------------------
(* SpecSchedule: the teacher's side.  Two slots can exist at once, so that *)
(* a createSlot meets the slots already stored; ranges touch, overlap,     *)
(* are empty or reversed; an update can carry the empty string as a time.  *)

\* [1500,1560) touches [1560,1620) and overlaps [1530,1590)
ScheduleRanges ==
    {<<1500, 1560>>, <<1560, 1620>>, <<1530, 1590>>, <<1560, 1560>>,
     <<1560, 1500>>}

ScheduleUpdates ==
    {LocationOnly, [startISO |-> 1530, endISO |-> 1590],
     [startISO |-> EmptyISO]}

ScheduleCalls ==
    {[op |-> "createSlot", uid |-> t, startISO |-> r[1], endISO |-> r[2],
      maxSeats |-> m, availableSeats |-> a] :
        t \in {"teacher1", "teacher2", "student1"},
        r \in ScheduleRanges, m \in SeatInputs, a \in {0, SeatCap}}
    \cup {[op |-> "updateSlot", id |-> s, updates |-> u] :
            s \in 1..MaxScheduleSlots, u \in ScheduleUpdates}
    \cup {[op |-> "deleteSlot", id |-> s] : s \in 1..(MaxScheduleSlots + 1)}
    \cup {[op |-> "bookAppointment", id |-> s, uid |-> "student1"] :
            s \in 1..MaxScheduleSlots}
    \cup {[op |-> "cancelAppointment", id |-> a, uid |-> u] :
            a \in 1..MaxScheduleAppts, u \in {"teacher1", "teacher2"}}

WithinScheduleBounds ==
    /\ slotUids' <= MaxScheduleSlots
    /\ Len(appointments') <= MaxScheduleAppts
    /\ \A i \in 1..Len(slots') : slots'[i].availableSeats <= SeatCap

ScheduleCall ==
    \E c \in ScheduleCalls :
        /\ Exec(c)
        /\ WithinScheduleBounds
        /\ last' = Outcome(c)
        /\ UNCHANGED <<now, pending, auth, clockReads>>

SpecSchedule == Init /\ [][ScheduleCall]_vars

-----------------------------------------------------------------------------
(* SpecClock: the two time windows.  One slot [1500,1560) is booked and    *)
(* cancelled while the clock passes 25 h, 24 h and 23 h before its start,  *)
(* then 61 and 60 minutes before it, then 30 minutes after it.            *)

ClockTimes == {0, 60, 120, 1439, 1440, 1530}

ClockCalls ==
    {[op |-> "createSlot", uid |-> "teacher1", startISO |-> 1500,
      endISO |-> 1560, maxSeats |-> m, availableSeats |-> m] :
        m \in SeatInputs}
    \cup {[op |-> "bookAppointment", id |-> s, uid |-> u] :
            s \in 1..MaxSlots, u \in Students}
    \cup {[op |-> "cancelAppointment", id |-> a, uid |-> u] :
            a \in ApptIdArgs, u \in UserIds}

ClockCall ==
    \E c \in ClockCalls :
        /\ Exec(c)
        /\ WithinBounds
        /\ last' = Outcome(c)
        /\ UNCHANGED <<now, pending, auth, clockReads>>

ClockTick ==
    /\ \E t \in ClockTimes : t > now /\ now' = t
    /\ UNCHANGED <<store, pending, last, auth, clockReads>>

ClockNext == ClockCall \/ ClockTick

SpecClock == Init /\ [][ClockNext]_vars

-----------------------------------------------------------------------------
(* Accounts and sessions: the auth store of the Firebase stand-in, the      *)
(* sign-in and sign-up handlers of AuthPage and the session restore of App.  *)

\* uid() of the n-th account created by sign-up
NewUids == [n \in 1..(MaxSignUps + 1) |->
               CASE n = 1 -> "user1" [] n = 2 -> "user2" [] OTHER -> "user3"]

SignedUp == Cardinality(authUsers) - Cardinality(DemoAccounts)

\* the User that App and AuthPage build from an account
AppUser(account) ==
    [id |-> account.uid, email |-> account.email, role |-> account.role]

\* signUpWithEmailAndPassword: the validation and the duplicate check
signUpError(email, passwordLongEnough) ==
    IF ~ passwordLongEnough
    THEN "WeakPassword"
    ELSE IF \E a \in authUsers : a.email = email
    THEN "EmailInUse"
    ELSE "ok"

\* createUser of the mock API
createUserError(user) ==
    IF \E u \in users : u.id = user.id \/ u.email = user.email
    THEN "UserExists"
    ELSE "ok"

\* handleSignUp: the account is created and the session stored; then
\* createUser adds the user to the collection and onLogin signs them in,
\* unless createUser throws
handleSignUp(email, passwordLongEnough, role) ==
    LET account == [uid |-> NewUids[SignedUp + 1], email |-> email,
                    role |-> role]
    IN  /\ IF signUpError(email, passwordLongEnough) = "ok"
           THEN /\ authUsers' = authUsers \cup {account}
                /\ authSession' = account
                /\ IF createUserError(AppUser(account)) = "ok"
                   THEN /\ users' = users \cup {AppUser(account)}
                        /\ currentUser' = AppUser(account)
                   ELSE UNCHANGED <<users, currentUser>>
           ELSE UNCHANGED <<authUsers, authSession, users, currentUser>>
        /\ UNCHANGED <<slots, appointments, slotUids>>

\* handleSignIn: signInWithEmailAndPassword, then onLogin
handleSignIn(email, passwordRight) ==
    /\ IF passwordRight /\ \E a \in authUsers : a.email = email
       THEN LET account == CHOOSE a \in authUsers : a.email = email IN
            /\ authSession' = account
            /\ currentUser' = AppUser(account)
       ELSE UNCHANGED <<authSession, currentUser>>
    /\ UNCHANGED <<authUsers, store>>

\* handleLogout: signOut clears the session
handleLogout ==
    /\ authSession' = NoSession
    /\ currentUser' = NoUser
    /\ UNCHANGED <<authUsers, store>>

\* a reload of the page: App restores currentUser from the stored session
restoreSession ==
    /\ currentUser' = IF authSession # NoSession
                      THEN AppUser(authSession) ELSE NoUser
    /\ UNCHANGED <<authUsers, authSession, store>>

-----------------------------------------------------------------------------
(* SpecSession: people sign up, sign in and out and reload, and whoever is  *)
(* signed in uses the API.  A request carries the id of the signed-in user   *)
(* wherever the API takes a user id; the slot or appointment it names is     *)
(* any id, since the API functions are given no requester to compare it to.  *)
(* Slots are edited through the slot form only, by the teacher they belong   *)
(* to.                                                                       *)

SignUpEmails ==
    {"new@university.edu", "other@university.edu",
     "alice.johnson@university.edu", "student@demo.com"}

SignInEmails ==
    {"student@demo.com", "teacher@demo.com", "new@university.edu",
     "other@university.edu", "nobody@university.edu"}

Roles == {"STUDENT", "TEACHER"}

\* what the slot form submits: validate() lets it through only with an end
\* after the start and maxSeats between 1 and 10
SlotFormData(teacherId) ==
    {[teacherId |-> teacherId, startISO |-> r[1], endISO |-> r[2],
      maxSeats |-> m] :
        r \in {<<1500, 1560>>, <<1530, 1590>>}, m \in SeatInputs}

SessionCalls(userId) ==
    {[op |-> "createSlot", uid |-> f.teacherId, startISO |-> f.startISO,
      endISO |-> f.endISO, maxSeats |-> f.maxSeats,
      availableSeats |-> f.maxSeats] : f \in SlotFormData(userId)}
    \cup {[op |-> "deleteSlot", id |-> s] : s \in 1..MaxSlots}
    \cup {[op |-> "bookAppointment", id |-> s, uid |-> userId] :
            s \in 1..MaxSlots}
    \cup {[op |-> "cancelAppointment", id |-> a, uid |-> userId] :
            a \in ApptIdArgs}
    \cup {[op |-> "markAttended", id |-> a] : a \in ApptIdArgs}

\* handleSubmitSlot with a slot being edited: updateSlot(editingSlot.id,
\* slotData), for a slot of the teacher's own list
SlotFormEdits(userId) ==
    {[op |-> "updateSlot", id |-> slots[i].id, updates |-> f] :
        i \in {k \in 1..Len(slots) : slots[k].teacherId = userId},
        f \in SlotFormData(userId)}

SessionRequest ==
    \E c \in SessionCalls(currentUser.id) \cup SlotFormEdits(currentUser.id) :
        /\ currentUser # NoUser
        /\ Exec(c)
        /\ WithinBounds
        /\ last' = Outcome(c)
        /\ UNCHANGED <<now, pending, auth, clockReads>>

SignUp ==
    \E email \in SignUpEmails, ok \in BOOLEAN, role \in Roles :
        /\ currentUser = NoUser
        /\ SignedUp < MaxSignUps
        /\ handleSignUp(email, ok, role)
        /\ UNCHANGED <<now, pending, last, clockReads>>

SignIn ==
    \E email \in SignInEmails, right \in BOOLEAN :
        /\ currentUser = NoUser
        /\ handleSignIn(email, right)
        /\ UNCHANGED <<now, pending, last, clockReads>>

Logout ==
    /\ currentUser # NoUser
    /\ handleLogout
    /\ UNCHANGED <<now, pending, last, clockReads>>

Reload ==
    /\ restoreSession
    /\ UNCHANGED <<now, pending, last, clockReads>>

SessionNext == SignUp \/ SignIn \/ Logout \/ Reload \/ SessionRequest

SpecSession == Init /\ [][SessionNext]_vars

-----------------------------------------------------------------------------
(* SpecReads: the clock is read where the code reads it.  bookAppointment  *)
(* reads new Date() inside isBookingAllowed and again for createdAt;       *)
(* cancelAppointment by the student reads it inside                        *)
(* isWithinCancellationWindow and again for cancelledAt.  The body is      *)
(* synchronous but the wall clock is not stopped by it, so the second      *)
(* reading is any instant from the first one on.                           *)

\* the call ran its window check and stored a timestamp
ReadsTwice(c) ==
    /\ ErrorOf(c) = "ok"
    /\ \/ c.op = "bookAppointment"
       \/ /\ c.op = "cancelAppointment"
          /\ appointments[FindIndex(appointments, c.id)].studentId = c.uid

ReadsCall ==
    \E c \in ClockCalls, t \in ClockTimes :
        /\ t >= now
        /\ Exec(c)
        /\ WithinBounds
        /\ last' = Outcome(c)
        /\ IF ReadsTwice(c)
           THEN /\ clockReads' = [op |-> c.op, checked |-> now, stored |-> t]
                /\ now' = t
           ELSE /\ t = now
                /\ UNCHANGED <<clockReads, now>>
        /\ UNCHANGED <<pending, auth>>

ReadsTick ==
    /\ \E t \in ClockTimes : t > now /\ now' = t
    /\ UNCHANGED <<store, pending, last, auth, clockReads>>

ReadsNext == ReadsCall \/ ReadsTick

SpecReads == Init /\ [][ReadsNext]_vars

-----------------------------------------------------------------------------
(* Vocabulary of the properties *)

\* number of BOOKED appointments that reference the slot
BookedCount(slotId) ==
    Cardinality({i \in 1..Len(appointments) :
        appointments[i].slotId = slotId /\ appointments[i].status = "BOOKED"})

\* this step is the completion of a call (a call that throws twice in a row
\* with the same arguments is a stuttering step)
Completed ==
    last' # last \/ <<slots, appointments, slotUids>>' # <<slots, appointments, slotUids>>

IsStudent(u) == \E r \in users : r.id = u /\ r.role = "STUDENT"

SlotStored(slotId) == \E i \in 1..Len(slots) : slots[i].id = slotId

SlotById(slotId) == slots[CHOOSE i \in 1..Len(slots) : slots[i].id = slotId]

ApptStored(appointmentId) ==
    \E i \in 1..Len(appointments) : appointments[i].id = appointmentId

ApptById(appointmentId) ==
    appointments[CHOOSE i \in 1..Len(appointments) :
                    appointments[i].id = appointmentId]

-----------------------------------------------------------------------------
\* C1: after every completed operation each stored slot has
\* availableSeats = maxSeats - (number of BOOKED appointments of the slot).
C1_SeatsMatchBookings ==
    \A i \in 1..Len(slots) :
        slots[i].availableSeats = slots[i].maxSeats - BookedCount(slots[i].id)

\* C2: every stored slot has 0 <= availableSeats <= maxSeats, whatever
\* cancels and updates preceded.
C2_SeatsInRange ==
    \A i \in 1..Len(slots) :
        /\ 0 <= slots[i].availableSeats
        /\ slots[i].availableSeats <= slots[i].maxSeats

\* C3: no slot is overbooked: the BOOKED appointments of a slot never
\* outnumber its maxSeats.
C3_NoOverbooking ==
    \A i \in 1..Len(slots) : BookedCount(slots[i].id) <= slots[i].maxSeats

\* C4: CANCELLED and ATTENDED are terminal: no step changes the status of an
\* appointment that is CANCELLED or ATTENDED.
C4_TerminalStatus ==
    [][\A i \in 1..Len(appointments) :
          appointments[i].status \in {"CANCELLED", "ATTENDED"}
              => appointments'[i].status = appointments[i].status]_vars

\* C5: a cancelAppointment of an appointment that is not BOOKED, by a caller
\* who passes the ownership and 24-hour checks, is rejected with
\* InvalidStateTransition and changes neither the appointments nor the slots,
\* also when another cancel of the same appointment was in flight with it.
C5_CancelTerminalRejected ==
    [][(/\ Completed
        /\ last'.op = "cancelAppointment"
        /\ ApptStored(last'.id)
        /\ ApptById(last'.id).status # "BOOKED"
        /\ SlotStored(ApptById(last'.id).slotId)
        /\ \/ SlotById(ApptById(last'.id).slotId).teacherId = last'.uid
           \/ /\ ApptById(last'.id).studentId = last'.uid
              /\ isWithinCancellationWindow(
                     SlotById(ApptById(last'.id).slotId).startISO))
       => /\ last'.err = "InvalidStateTransition"
          /\ UNCHANGED <<appointments, slots>>]_vars

\* C6: a successful bookAppointment followed directly by a successful
\* cancelAppointment of the appointment it made leaves the slot's
\* availableSeats at its value before the booking, and that value is
\* positive, so that the seat can be booked again.
C6_BookCancelRoundTrip ==
    [][(/\ last.op = "bookAppointment"
        /\ last.err = "ok"
        /\ Completed
        /\ last'.op = "cancelAppointment"
        /\ last'.err = "ok"
        /\ last'.id = last.made)
       => /\ \E i \in 1..Len(slots') :
                 /\ slots'[i].id = last.id
                 /\ slots'[i].availableSeats = last.seats
                 /\ slots'[i].availableSeats > 0
          /\ \E j \in 1..Len(appointments') :
                 /\ appointments'[j].id = last.made
                 /\ appointments'[j].status = "CANCELLED"]_vars

\* C6 witness: after a book/cancel cycle by student1 the freed seat of a
\* one-seat slot has been booked by student2.
C6_Witness ==
    /\ last.op = "bookAppointment"
    /\ last.err = "ok"
    /\ last.uid = "student2"
    /\ Len(appointments) = 2
    /\ appointments[1].status = "CANCELLED"
    /\ appointments[1].studentId = "student1"
    /\ appointments[1].slotId = last.id
    /\ SlotStored(last.id)
    /\ SlotById(last.id).maxSeats = 1
    /\ SlotById(last.id).availableSeats = 0

\* the error the ordered validation of bookAppointment must report
C7_FirstFailure(slotId, studentId) ==
    IF ~ IsStudent(studentId) THEN "InvalidStudent"
    ELSE IF ~ SlotStored(slotId) THEN "SlotNotFound"
    ELSE IF SlotById(slotId).availableSeats <= 0 THEN "SlotFull"
    ELSE IF \/ SlotById(slotId).startISO = EmptyISO
            \/ (SlotById(slotId).startISO - now) <= 60
    THEN "TooLateToBook"
    ELSE IF \E i \in 1..Len(appointments) :
                /\ appointments[i].studentId = studentId
                /\ appointments[i].status = "BOOKED"
                /\ SlotStored(appointments[i].slotId)
                /\ SlotById(appointments[i].slotId).startISO # EmptyISO
                /\ SlotById(appointments[i].slotId).startISO
                       < SlotById(slotId).endISO
                /\ SlotById(slotId).startISO
                       < SlotById(appointments[i].slotId).endISO
    THEN "ConflictingAppointment"
    ELSE "ok"

\* C7: bookAppointment reports the first failing condition in the order
\* InvalidStudent, SlotNotFound, SlotFull, TooLateToBook,
\* ConflictingAppointment, and returns when none fails.
C7_BookErrorOrder ==
    [][(Completed /\ last'.op = "bookAppointment")
       => last'.err = C7_FirstFailure(last'.id, last'.uid)]_vars

\* C7 witness: a booking was refused with SlotFull although it was also too
\* late to book and the student already held a BOOKED appointment there.
C7_Witness ==
    /\ last.op = "bookAppointment"
    /\ last.err = "SlotFull"
    /\ SlotStored(last.id)
    /\ ~ isBookingAllowed(SlotById(last.id).startISO)
    /\ hasConflict(SlotById(last.id), last.uid)

\* C8: a bookAppointment that returns appends exactly one appointment, BOOKED,
\* with the slot and student it was given, and lowers that slot's
\* availableSeats by exactly 1 in the same step; no step stores an appointment
\* without the decrement.
C8_BookWritesTogether ==
    [][/\ (Completed /\ last'.op = "bookAppointment" /\ last'.err = "ok")
          => /\ appointments' = Append(appointments,
                    [id |-> Len(appointments) + 1, slotId |-> last'.id,
                     studentId |-> last'.uid, status |-> "BOOKED"])
             /\ Len(slots') = Len(slots)
             /\ \A i \in 1..Len(slots) :
                    slots'[i] =
                        IF slots[i].id = last'.id
                        THEN [slots[i] EXCEPT !.availableSeats = @ - 1]
                        ELSE slots[i]
       /\ Len(appointments') # Len(appointments)
          => /\ Len(appointments') = Len(appointments) + 1
             /\ \E i \in 1..Len(slots) :
                    /\ slots[i].id = appointments'[Len(appointments')].slotId
                    /\ slots'[i].availableSeats = slots[i].availableSeats - 1
      ]_vars

\* C8 witness: a booking of a two-seat slot has returned.
C8_Witness ==
    /\ last.op = "bookAppointment"
    /\ last.err = "ok"
    /\ last.made = Len(appointments)
    /\ SlotStored(last.id)
    /\ SlotById(last.id).maxSeats = 2
    /\ SlotById(last.id).availableSeats = 1

C10_NoOverlappingBookings ==
    \A i \in 1..Len(appointments) : \A j \in 1..Len(appointments) :
        (/\ i < j
         /\ appointments[i].studentId = appointments[j].studentId
         /\ appointments[i].status = "BOOKED"
         /\ appointments[j].status = "BOOKED")
        => /\ appointments[i].slotId # appointments[j].slotId
           /\ (SlotStored(appointments[i].slotId)
                  /\ SlotStored(appointments[j].slotId))
               => ~ slotsOverlap(SlotById(appointments[i].slotId).startISO,
                                 SlotById(appointments[i].slotId).endISO,
                                 SlotById(appointments[j].slotId).startISO,
                                 SlotById(appointments[j].slotId).endISO)

\* C11: the booking window is strict.  A bookAppointment that reaches the
\* timing check (student and slot valid, a seat left) fails with
\* TooLateToBook iff the slot starts 60 minutes or less from now, a start in
\* the past included; with 61 minutes or more to go it is not refused for
\* the time.
C11_BookingWindowStrict ==
    [][(/\ Completed
        /\ last'.op = "bookAppointment"
        /\ IsStudent(last'.uid)
        /\ SlotStored(last'.id)
        /\ SlotById(last'.id).availableSeats > 0)
       => /\ (last'.err = "TooLateToBook")
                <=> (SlotById(last'.id).startISO - now <= 60)
          /\ (SlotById(last'.id).startISO - now >= 61)
                => last'.err \in {"ok", "ConflictingAppointment"}]_vars

\* C11 witness: a booking made exactly 61 minutes before the start returned.
C11_Witness ==
    /\ last.op = "bookAppointment"
    /\ last.err = "ok"
    /\ SlotStored(last.id)
    /\ SlotById(last.id).startISO - now = 61

\* C13: the 24-hour window binds the student only.  A cancel of a BOOKED
\* appointment by its student returns iff the slot starts more than 24 hours
\* from now and fails with TooLateToCancel otherwise; a cancel by the teacher
\* of the slot returns whatever time is left, and would have returned at the
\* very moment the student's cancel is refused.
C13_CancelWindowStudentOnly ==
    [][(/\ Completed
        /\ last'.op = "cancelAppointment"
        /\ ApptStored(last'.id)
        /\ ApptById(last'.id).status = "BOOKED"
        /\ SlotStored(ApptById(last'.id).slotId))
       => /\ (last'.uid = ApptById(last'.id).studentId)
                => /\ (last'.err = "ok")
                         <=> (SlotById(ApptById(last'.id).slotId).startISO
                                 - now > 24 * 60)
                   /\ last'.err \in {"ok", "TooLateToCancel"}
                   /\ cancelAppointmentError(last'.id,
                          SlotById(ApptById(last'.id).slotId).teacherId) = "ok"
          /\ (last'.uid = SlotById(ApptById(last'.id).slotId).teacherId)
                => last'.err = "ok"]_vars

\* C13 witness: the teacher has cancelled an appointment 23 hours before the
\* start of the slot.
C13_Witness ==
    /\ last.op = "cancelAppointment"
    /\ last.err = "ok"
    /\ ApptStored(last.id)
    /\ ApptById(last.id).status = "CANCELLED"
    /\ SlotStored(ApptById(last.id).slotId)
    /\ last.uid = SlotById(ApptById(last.id).slotId).teacherId
    /\ SlotById(ApptById(last.id).slotId).startISO - now = 23 * 60

\* C12: a cancelAppointment returns only for the student of the appointment
\* or the teacher of its slot; for any other acting user it fails with
\* NotAuthorized and changes neither the appointments nor the slots.
C12_CancelAuthorized ==
    [][(Completed /\ last'.op = "cancelAppointment")
       => /\ (last'.err = "ok")
                => /\ ApptStored(last'.id)
                   /\ SlotStored(ApptById(last'.id).slotId)
                   /\ \/ last'.uid = ApptById(last'.id).studentId
                      \/ last'.uid
                            = SlotById(ApptById(last'.id).slotId).teacherId
          /\ (/\ ApptStored(last'.id)
              /\ SlotStored(ApptById(last'.id).slotId)
              /\ last'.uid # ApptById(last'.id).studentId
              /\ last'.uid # SlotById(ApptById(last'.id).slotId).teacherId)
                => /\ last'.err = "NotAuthorized"
                   /\ UNCHANGED <<appointments, slots>>]_vars

\* C12 witness: a teacher who does not own the slot was refused the cancel of
\* a BOOKED appointment.
C12_Witness ==
    /\ last.op = "cancelAppointment"
    /\ last.err = "NotAuthorized"
    /\ last.uid \in Teachers
    /\ ApptStored(last.id)
    /\ ApptById(last.id).status = "BOOKED"
    /\ SlotStored(ApptById(last.id).slotId)
    /\ SlotById(ApptById(last.id).slotId).teacherId # last.uid

\* some stored slot of the teacher has start < endISO and startISO < end
C14_TeacherOverlap(teacherId, startISO, endISO) ==
    \E i \in 1..Len(slots) :
        /\ slots[i].teacherId = teacherId
        /\ slots[i].startISO # EmptyISO
        /\ slots[i].startISO < endISO
        /\ startISO < slots[i].endISO

\* C14: for a teacher and a range with end after start, createSlot fails
\* with OverlappingSlot iff a stored slot of the same teacher has
\* start < new end and new start < end (touching ranges do not overlap);
\* slots of other teachers never count.  A createSlot that returns stores a
\* slot that overlaps no slot the teacher had, and one that fails with
\* OverlappingSlot stores nothing.
C14_OverlapPerTeacher ==
    /\ [](\A t \in Teachers : \A r \in ScheduleRanges :
            r[1] < r[2]
                => /\ (createSlotError(t, r[1], r[2]) = "OverlappingSlot")
                         <=> C14_TeacherOverlap(t, r[1], r[2])
                   /\ createSlotError(t, r[1], r[2])
                         \in {"ok", "OverlappingSlot"})
    /\ [][
       /\ (Completed /\ last'.op = "createSlot" /\ last'.err = "ok")
            => /\ Len(slots') = Len(slots) + 1
               /\ ~ C14_TeacherOverlap(slots'[Len(slots')].teacherId,
                                       slots'[Len(slots')].startISO,
                                       slots'[Len(slots')].endISO)
       /\ (Completed /\ last'.op = "createSlot"
                /\ last'.err = "OverlappingSlot")
            => /\ UNCHANGED <<slots, slotUids>>
               /\ \E i \in 1..Len(slots) : slots[i].teacherId = last'.uid
      ]_vars

\* C14 witness: a teacher has created [1560,1620) next to their slot
\* [1500,1560), whose range it touches.
C14_Witness ==
    /\ last.op = "createSlot"
    /\ last.err = "ok"
    /\ Len(slots) = 2
    /\ slots[1].teacherId = slots[2].teacherId
    /\ slots[1].endISO = slots[2].startISO
    /\ slots[2].id = last.made

\* the error the ordered validation of createSlot must report, short of the
\* overlap check
C15_FirstFailure(teacherId, startISO, endISO) ==
    IF ~ \E r \in users : r.id = teacherId /\ r.role = "TEACHER"
    THEN "InvalidTeacher"
    ELSE IF endISO <= startISO THEN "InvalidTimeRange"
    ELSE "passed"

\* C15: createSlot fails with InvalidTeacher when teacherId is not a teacher,
\* else with InvalidTimeRange when endISO <= startISO, both before the
\* overlap check; a createSlot that fails stores nothing; one that returns
\* appends exactly one slot, with a fresh id, the given teacher, and
\* availableSeats equal to its maxSeats whatever availableSeats was passed.
C15_CreateSlotContract ==
    /\ [](\A c \in ScheduleCalls :
            c.op = "createSlot"
                => IF C15_FirstFailure(c.uid, c.startISO, c.endISO) = "passed"
                   THEN ErrorOf(c) \in {"ok", "OverlappingSlot"}
                   ELSE ErrorOf(c)
                          = C15_FirstFailure(c.uid, c.startISO, c.endISO))
    /\ [][
       /\ (Completed /\ last'.op = "createSlot" /\ last'.err # "ok")
            => UNCHANGED <<slots, slotUids, appointments, users>>
       /\ (Completed /\ last'.op = "createSlot" /\ last'.err = "ok")
            => /\ Len(slots') = Len(slots) + 1
               /\ \A i \in 1..Len(slots) :
                      slots'[i] = slots[i] /\ slots[i].id # last'.made
               /\ slots'[Len(slots')].id = last'.made
               /\ slots'[Len(slots')].teacherId = last'.uid
               /\ slots'[Len(slots')].availableSeats
                      = slots'[Len(slots')].maxSeats
               /\ UNCHANGED <<appointments, users>>
      ]_vars

\* C15 witness: a slot with maxSeats 1 has just been created, and no
\* createSlot call passes availableSeats 1.
C15_Witness ==
    /\ last.op = "createSlot"
    /\ last.err = "ok"
    /\ SlotStored(last.made)
    /\ SlotById(last.made).maxSeats = 1
    /\ SlotById(last.made).availableSeats = 1
    /\ \A c \in ScheduleCalls : c.op = "createSlot" => c.availableSeats # 1

\* C16: while a BOOKED appointment references a slot, an updateSlot whose
\* update contains startISO or endISO fails with SlotHasBookings and leaves
\* the slot as it was, and an update of other fields only returns; so no
\* step changes the start or the end of a slot that has a BOOKED
\* appointment.
C16_TimesFrozenWhileBooked ==
    [][/\ (/\ Completed
            /\ last'.op = "updateSlot"
            /\ SlotStored(last'.id)
            /\ hasBookings(last'.id))
           => \/ last'.err = "SlotHasBookings" /\ UNCHANGED slots
              \/ /\ last'.err = "ok"
                 /\ \E i \in 1..Len(slots') :
                        /\ slots'[i].id = last'.id
                        /\ slots'[i].startISO = SlotById(last'.id).startISO
                        /\ slots'[i].endISO = SlotById(last'.id).endISO
       /\ \A i \in 1..Len(slots) :
              hasBookings(slots[i].id)
                  => \E j \in 1..Len(slots') :
                        /\ slots'[j].id = slots[i].id
                        /\ slots'[j].startISO = slots[i].startISO
                        /\ slots'[j].endISO = slots[i].endISO
      ]_vars

\* C17: deleteSlot fails with SlotNotFound for an id that is not stored and
\* with SlotHasBookings while a BOOKED appointment references the slot, and
\* the slots stay as they were; otherwise (no appointment, or every one of
\* them cancelled) it returns and removes that slot and no other.  It never
\* touches an appointment.
C17_DeleteSlotContract ==
    [][(Completed /\ last'.op = "deleteSlot")
       => /\ ~ SlotStored(last'.id)
                => last'.err = "SlotNotFound" /\ UNCHANGED slots
          /\ (SlotStored(last'.id) /\ hasBookings(last'.id))
                => last'.err = "SlotHasBookings" /\ UNCHANGED slots
          /\ (SlotStored(last'.id) /\ ~ hasBookings(last'.id))
                => /\ last'.err = "ok"
                   /\ Len(slots') = Len(slots) - 1
                   /\ \A j \in 1..Len(slots') : slots'[j].id # last'.id
                   /\ \A i \in 1..Len(slots) :
                          slots[i].id # last'.id
                              => \E j \in 1..Len(slots') : slots'[j] = slots[i]
          /\ UNCHANGED <<appointments, users>>]_vars

\* C17 witness: the slot of a cancelled appointment has been deleted and
\* the teacher's other slot is still stored.
C17_Witness ==
    /\ last.op = "deleteSlot"
    /\ last.err = "ok"
    /\ Len(appointments) = 1
    /\ appointments[1].slotId = last.id
    /\ appointments[1].status = "CANCELLED"
    /\ ~ SlotStored(last.id)
    /\ Len(slots) = 1

\* C18: referential integrity: every stored appointment, whatever its
\* status, has the id of a stored slot as slotId and the id of a stored user
\* as studentId.
C18_ReferentialIntegrity ==
    \A i \in 1..Len(appointments) :
        /\ SlotStored(appointments[i].slotId)
        /\ \E u \in users : u.id = appointments[i].studentId

\* C19: appointments are created by bookAppointment only and are never
\* removed: every step keeps each stored appointment in place with its id,
\* slotId and studentId, and the list grows only by the one appointment of
\* a bookAppointment that returns.
C19_AppointmentsKept ==
    [][/\ Len(appointments') >= Len(appointments)
       /\ \A i \in 1..Len(appointments) :
              /\ appointments'[i].id = appointments[i].id
              /\ appointments'[i].slotId = appointments[i].slotId
              /\ appointments'[i].studentId = appointments[i].studentId
       /\ Len(appointments') # Len(appointments)
              => /\ Len(appointments') = Len(appointments) + 1
                 /\ last'.op = "bookAppointment"
                 /\ last'.err = "ok"
                 /\ last'.made = appointments'[Len(appointments')].id
                 /\ ~ ApptStored(last'.made)
      ]_vars

\* C19 witness: an appointment is still stored, CANCELLED, after a cancel
\* and the deletion of its slot.
C19_Witness ==
    /\ last.op = "deleteSlot"
    /\ last.err = "ok"
    /\ Len(appointments) >= 1
    /\ appointments[1].slotId = last.id
    /\ appointments[1].status = "CANCELLED"

\* C20: markAttended changes nothing but the status of the named
\* appointment: slots (availableSeats included), users and every other
\* appointment stay as they were; on a BOOKED appointment it returns and the
\* status becomes ATTENDED; for an id that is not stored it fails with
\* AppointmentNotFound and changes nothing.
C20_MarkAttendedFrame ==
    [][(Completed /\ last'.op = "markAttended")
       => /\ UNCHANGED <<slots, users, slotUids>>
          /\ Len(appointments') = Len(appointments)
          /\ \A i \in 1..Len(appointments) :
                 IF appointments[i].id = last'.id
                 THEN \E st \in {"BOOKED", "CANCELLED", "ATTENDED"} :
                        appointments'[i]
                            = [appointments[i] EXCEPT !.status = st]
                 ELSE appointments'[i] = appointments[i]
          /\ (ApptStored(last'.id) /\ ApptById(last'.id).status = "BOOKED")
                => /\ last'.err = "ok"
                   /\ \E i \in 1..Len(appointments') :
                          /\ appointments'[i].id = last'.id
                          /\ appointments'[i].status = "ATTENDED"
          /\ ~ ApptStored(last'.id)
                => /\ last'.err = "AppointmentNotFound"
                   /\ UNCHANGED appointments]_vars

\* C20 witness: of two BOOKED appointments one has been marked attended, the
\* other is still BOOKED and the slot still has no seat left.
C20_Witness ==
    /\ last.op = "markAttended"
    /\ last.err = "ok"
    /\ Len(appointments) = 2
    /\ appointments[last.id].status = "ATTENDED"
    /\ appointments[3 - last.id].status = "BOOKED"
    /\ SlotStored(appointments[last.id].slotId)
    /\ SlotById(appointments[last.id].slotId).availableSeats = 0

\* C21: every stored slot is well formed: its end is after its start and its
\* maxSeats is at least 1.
C21_SlotsWellFormed ==
    \A i \in 1..Len(slots) :
        /\ slots[i].startISO # EmptyISO
        /\ slots[i].endISO # EmptyISO
        /\ slots[i].endISO > slots[i].startISO
        /\ slots[i].maxSeats >= 1

\* C28: an operation that ends in an error leaves users, slots and
\* appointments exactly as they were.
C28_ErrorsChangeNothing ==
    [][(Completed /\ last'.err # "ok")
       => UNCHANGED <<users, slots, appointments>>]_vars

\* C28 witness: a booking was refused with ConflictingAppointment, the last
\* of the checks, and the slot still has the seat it had.
C28_Witness ==
    /\ last.op = "bookAppointment"
    /\ last.err = "ConflictingAppointment"
    /\ SlotStored(last.id)
    /\ SlotById(last.id).availableSeats > 0
    /\ BookedCount(last.id) = 1

\* C30: the Delete button of a slot is disabled (availableSeats < maxSeats)
\* exactly when deleteSlot would fail with SlotHasBookings for it.
C30_DeleteButtonAgrees ==
    \A i \in 1..Len(slots) :
        (slots[i].availableSeats < slots[i].maxSeats)
            <=> (deleteSlotError(slots[i].id) = "SlotHasBookings")

\* the elements of a list
C23_Range(list) == {list[i] : i \in 1..Len(list)}

\* C23: getUserAppointments(userId, "STUDENT") returns exactly the stored
\* appointments whose studentId is userId, and
\* getUserAppointments(userId, "TEACHER") exactly those whose slot is stored
\* with teacherId = userId, each once and whatever its status.
C23_AppointmentsOfUser ==
    \A u \in UserIds :
        /\ C23_Range(getUserAppointments(u, "STUDENT"))
              = {a \in C23_Range(appointments) : a.studentId = u}
        /\ Len(getUserAppointments(u, "STUDENT"))
              = Cardinality({i \in 1..Len(appointments) :
                                appointments[i].studentId = u})
        /\ C23_Range(getUserAppointments(u, "TEACHER"))
              = {a \in C23_Range(appointments) :
                    SlotStored(a.slotId) /\ SlotById(a.slotId).teacherId = u}
        /\ Len(getUserAppointments(u, "TEACHER"))
              = Cardinality({i \in 1..Len(appointments) :
                    /\ SlotStored(appointments[i].slotId)
                    /\ SlotById(appointments[i].slotId).teacherId = u})

\* C23 witness: student1 has a CANCELLED and an ATTENDED appointment with
\* teacher1, and both lists show the two of them.
C23_Witness ==
    /\ Len(appointments) = 2
    /\ {appointments[1].status, appointments[2].status}
          = {"CANCELLED", "ATTENDED"}
    /\ getUserAppointments("student1", "STUDENT") = appointments
    /\ getUserAppointments("teacher1", "TEACHER") = appointments

\* C25: the slots returned for the student dashboard's default filter are in
\* the future and not fully booked: none starts before now and none has
\* availableSeats = 0.
C25_StudentSeesFutureFreeSlots ==
    \A i \in 1..Len(getSlots(DashboardFilters)) :
        /\ getSlots(DashboardFilters)[i].startISO >= now
        /\ getSlots(DashboardFilters)[i].availableSeats > 0

\* no two stored slots of one teacher overlap
C26_NoTeacherOverlap ==
    \A i \in 1..Len(slots) : \A j \in 1..Len(slots) :
        (i < j /\ slots[i].teacherId = slots[j].teacherId)
            => ~ slotsOverlap(slots[i].startISO, slots[i].endISO,
                              slots[j].startISO, slots[j].endISO)

\* C26: updateSlot does not re-run the overlap check: on a stored slot
\* without BOOKED appointments it returns whatever range it is given, also
\* one that overlaps another slot of the teacher; createSlot, for its part,
\* never makes two slots of a teacher overlap when none did.
C26_UpdateSkipsOverlapCheck ==
    [][/\ (/\ Completed
           /\ last'.op = "updateSlot"
           /\ SlotStored(last'.id)
           /\ ~ hasBookings(last'.id))
          => last'.err = "ok"
       /\ (Completed /\ last'.op = "createSlot" /\ C26_NoTeacherOverlap)
          => C26_NoTeacherOverlap'
      ]_vars

\* C26 witness: an updateSlot has returned and left two slots of the same
\* teacher on overlapping ranges.
C26_Witness ==
    /\ last.op = "updateSlot"
    /\ last.err = "ok"
    /\ ~ C26_NoTeacherOverlap

\* C22: updateSlot and deleteSlot are carried out only for the teacher who
\* owns the slot, and markAttended only for the teacher who owns the slot of
\* the appointment: a request made while any other user is signed in is
\* rejected and changes nothing.
C22_OwnerOnly ==
    [][/\ (/\ Completed
           /\ last'.op \in {"updateSlot", "deleteSlot"}
           /\ SlotStored(last'.id)
           /\ SlotById(last'.id).teacherId # currentUser.id)
          => last'.err # "ok" /\ UNCHANGED slots
       /\ (/\ Completed
           /\ last'.op = "markAttended"
           /\ ApptStored(last'.id)
           /\ SlotStored(ApptById(last'.id).slotId)
           /\ SlotById(ApptById(last'.id).slotId).teacherId # currentUser.id)
          => last'.err # "ok" /\ UNCHANGED appointments
      ]_vars

\* C24: an edit submitted through the slot form for a slot that has a BOOKED
\* appointment is rejected with SlotHasBookings and leaves the slots as they
\* were, whatever the form changes; the same form on a slot without
\* bookings is applied.
C24_FormEditOfBookedSlot ==
    [][(Completed /\ last'.op = "updateSlot" /\ SlotStored(last'.id))
       => IF hasBookings(last'.id)
          THEN last'.err = "SlotHasBookings" /\ UNCHANGED slots
          ELSE /\ last'.err = "ok"
               /\ \E f \in SlotFormData(currentUser.id) :
                      \E i \in 1..Len(slots) :
                         /\ slots[i].id = last'.id
                         /\ slots' = [slots EXCEPT ![i] = Spread(slots[i], f)]
      ]_vars

\* C24 witness: the teacher's form edit of a slot with a BOOKED appointment
\* was refused.
C24_Witness ==
    /\ last.op = "updateSlot"
    /\ last.err = "SlotHasBookings"
    /\ SlotStored(last.id)
    /\ SlotById(last.id).teacherId = currentUser.id
    /\ BookedCount(last.id) >= 1

\* C29: whoever is signed in is a stored user with the same role, so a
\* signed-in student's bookAppointment never fails with InvalidStudent and a
\* signed-in teacher's createSlot never with InvalidTeacher.
C29_SessionUserStored ==
    /\ [](currentUser # NoUser
            => \E u \in users :
                  u.id = currentUser.id /\ u.role = currentUser.role)
    /\ [][(Completed /\ last'.uid = currentUser.id)
            => /\ (last'.op = "bookAppointment"
                      /\ currentUser.role = "STUDENT")
                    => last'.err # "InvalidStudent"
               /\ (last'.op = "createSlot" /\ currentUser.role = "TEACHER")
                    => last'.err # "InvalidTeacher"]_vars

\* C27: a timed operation uses one reading of the clock: the instant its
\* window check compared is the instant it stored as createdAt (booking) or
\* cancelledAt (cancellation by the student).
C27_OneNowPerOperation == clockReads.checked = clockReads.stored

====
